---- MODULE Spec2Model ----
(***************************************************************************)
(* Model of `yarn version <strategy>` (plugin-version, commands/version.ts) *)
(* together with the parts of versionUtils it calls.  versionUtils is not  *)
(* part of the available sources; applyStrategy, suggestStrategy,          *)
(* resolveVersionFiles, openVersionFile and saveAll follow the design      *)
(* document (sections 4.1 - 4.3), and so does the nested `version apply`   *)
(* command (sections 1 and 3: it rewrites the manifests, deletes no record).*)
(*                                                                         *)
(* Strings are modelled as records so that words, semver strings and null  *)
(* stay distinguishable:                                                   *)
(*   [kind |-> "word", text |-> t]            any non-semver string        *)
(*   [kind |-> "semver", v, major, minor, patch, pre]                      *)
(*        a string semver.valid accepts; v is a leading "v" ("v1.0.5"),    *)
(*        pre is the prerelease identifier list (<<>> or <<n>>)            *)
(*   [kind |-> "null"], [kind |-> "undefined"], [kind |-> "error", ...]    *)
(***************************************************************************)
EXTENDS Integers, Sequences, FiniteSets, TLC

VARIABLES
  manifest,        \* workspace.manifest.version of every workspace
  disk,            \* persisted pending release records: record -> workspace -> strategy
  pc,              \* position of the running command inside execute()
  runs,            \* number of invocations started so far
  workspace,       \* the workspace Project.find returned for this.context.cwd
  strategy,        \* this.strategy
  deferred,        \* the local `deferred` of execute()
  record,          \* the record of the current change (what openVersionFile opens)
  releaseStrategy, \* the local `releaseStrategy`
  releases,        \* the local `releases` (result of resolveVersionFiles)
  versionFile,     \* versionFile.releases, the in-memory record
  outcome,         \* "none" while running, "ok", or the name of the error thrown
  log,             \* the state-changing calls the invocation has completed, in order
  before,          \* disk as it was when the invocation started
  manifestBefore   \* manifest as it was when the invocation started

vars == <<manifest, disk, pc, runs, workspace, strategy, deferred, record,
          releaseStrategy, releases, versionFile, outcome, log, before, manifestBefore>>

\* Number of command invocations explored.
MaxRuns == 2

----------------------------------------------------------------------------
\* Values

Null == [kind |-> "null"]
Undefined == [kind |-> "undefined"]
Word(t) == [kind |-> "word", text |-> t]
Err(n) == [kind |-> "error", name |-> n]
Version(M, m, p, pre) ==
  [kind |-> "semver", v |-> FALSE, major |-> M, minor |-> m, patch |-> p, pre |-> pre]
Prefixed(ver) == [ver EXCEPT !.v = TRUE]

IsError(x) == x.kind = "error"

Workspaces == {"pkgA", "pkgB"}
Records == {"changeA", "changeB"}

\* Project.find found no workspace for the cwd; no record is open.
NoWorkspace == "none"
NoRecord == "none"

\* versionUtils.Decision
UNDECIDED == Word("undecided")
DECLINE == Word("decline")
Decision ==
  {UNDECIDED, DECLINE, Word("major"), Word("minor"), Word("patch"),
   Word("premajor"), Word("preminor"), Word("prepatch"), Word("prerelease")}

\* Manifest versions a workspace may carry: none, a non-semver string, 1.0.0, 1.2.3-4.
ManifestVersions ==
  {Null, Word("workspace-next"), Version(1, 0, 0, <<>>), Version(1, 2, 3, <<4>>)}

\* Explicit versions given on the command line: "2.0.0" and "v0.1.0".
ExplicitVersions == {Version(2, 0, 0, <<>>), Prefixed(Version(0, 1, 0, <<>>))}

\* The strings tried as the positional `strategy` argument.
StrategyInputs ==
  {Word("major"), Word("patch"), DECLINE, UNDECIDED, Word("latest")}
    \cup ExplicitVersions

----------------------------------------------------------------------------
\* semver (library)

\* semver.valid(s): the cleaned version, or null.
semverValid(s) == IF s.kind = "semver" THEN [s EXCEPT !.v = FALSE] ELSE Null

\* Prerelease comparison: a version without prerelease is greater than one with.
preLt(a, b) ==
  IF a = <<>> THEN FALSE
  ELSE IF b = <<>> THEN TRUE
  ELSE a[1] < b[1]

\* semver.lt(a, b) for two valid versions.
semverLt(a, b) ==
  \/ a.major < b.major
  \/ a.major = b.major /\ a.minor < b.minor
  \/ a.major = b.major /\ a.minor = b.minor /\ a.patch < b.patch
  \/ a.major = b.major /\ a.minor = b.minor /\ a.patch = b.patch /\ preLt(a.pre, b.pre)

----------------------------------------------------------------------------
\* versionUtils: SemverStrategyEngine

\* The new version a relative token produces from a valid current version.
bump(cur, token) ==
  CASE token = Word("major") -> Version(cur.major + 1, 0, 0, <<>>)
    [] token = Word("minor") -> Version(cur.major, cur.minor + 1, 0, <<>>)
    [] token = Word("patch") -> Version(cur.major, cur.minor, cur.patch + 1, <<>>)
    [] token = Word("premajor") -> Version(cur.major + 1, 0, 0, <<0>>)
    [] token = Word("preminor") -> Version(cur.major, cur.minor + 1, 0, <<0>>)
    [] token = Word("prepatch") -> Version(cur.major, cur.minor, cur.patch + 1, <<0>>)
    [] token = Word("prerelease") ->
         IF cur.pre # <<>>
         THEN Version(cur.major, cur.minor, cur.patch, <<cur.pre[1] + 1>>)
         ELSE Version(cur.major, cur.minor, cur.patch + 1, <<0>>)
    [] OTHER -> Err("InvalidVersionError")

applyStrategy(version, strat) ==
  IF semverValid(strat) # Null THEN strat
  ELSE IF strat \notin Decision \ {UNDECIDED} THEN Err("InvalidVersionError")
  ELSE IF version = Null THEN Err("InvalidBumpError")
  ELSE IF strat = DECLINE THEN version
  ELSE IF semverValid(version) = Null THEN Err("InvalidVersionError")
  ELSE bump(semverValid(version), strat)

\* The tokens suggestStrategy tries: major, minor, patch and their pre* variants.
SuggestTokens ==
  {Word("major"), Word("minor"), Word("patch"),
   Word("premajor"), Word("preminor"), Word("prepatch")}

suggestStrategy(from, to) ==
  LET matching == {t \in SuggestTokens : applyStrategy(from, t) = to}
  IN IF Cardinality(matching) = 1 THEN CHOOSE t \in matching : TRUE ELSE Null

----------------------------------------------------------------------------
\* versionUtils: ReleaseLedgerResolver and PendingReleaseRecord

EmptyRecord == [w \in Workspaces |-> Undefined]

\* The orders in which the pending records may be discovered.
DiscoveryOrders ==
  {o \in [1..Cardinality(Records) -> Records] : \A r \in Records : \E i \in DOMAIN o : o[i] = r}

\* The candidates of workspace w: one per record that names it.
candidates(d, m, w) ==
  {applyStrategy(m[w], d[r][w]) : r \in {x \in Records : d[x][w] # Undefined}}

\* Faulty merges: the candidate seen last wins; the lower candidate wins.
bestReleaseLastSeen(kept, candidate) == candidate
bestReleaseLowest(kept, candidate) ==
  IF kept = Undefined THEN candidate
  ELSE IF semverLt(candidate, kept) THEN candidate
  ELSE kept

\* The release kept for a workspace when a further candidate is merged in.
bestRelease(kept, candidate) ==
  IF kept = Undefined THEN candidate
  ELSE IF semverLt(kept, candidate) THEN candidate
  ELSE kept

RECURSIVE mergeRecords(_, _, _, _)
mergeRecords(order, d, m, acc) ==
  IF order = <<>> THEN acc
  ELSE mergeRecords(Tail(order), d, m,
         [w \in Workspaces |->
            IF d[Head(order)][w] = Undefined THEN acc[w]
            ELSE bestRelease(acc[w], applyStrategy(m[w], d[Head(order)][w]))])

\* The error resolveVersionFiles ends with when a candidate cannot be computed
\* or is no version, or "none".
resolveFailure(d, m) ==
  LET all == UNION {candidates(d, m, w) : w \in Workspaces}
  IN IF Err("InvalidBumpError") \in all THEN "InvalidBumpError"
     ELSE IF \E c \in all : c.kind # "semver" THEN "InvalidVersionError"
     ELSE "none"

\* resolveVersionFiles(project): the merged ledger, the records read in `order`.
resolveVersionFiles(order, d, m) == mergeRecords(order, d, m, EmptyRecord)

\* version apply: the manifests once the ledger's versions are written into them.
applyReleases(m, ledger) ==
  [w \in Workspaces |-> IF ledger[w] = Undefined THEN m[w] ELSE ledger[w]]

\* versionFile.saveAll(): the whole in-memory record replaces the persisted one.
saveAll(d, r, file) == [d EXCEPT ![r] = file]

----------------------------------------------------------------------------
\* VersionCommand

\* Faulty accepted set: UNDECIDED is not filtered out.
acceptedStrategiesUnfiltered == Decision

\* const acceptedStrategies = every Decision but UNDECIDED
acceptedStrategies == Decision \ {UNDECIDED}

\* static schema: the yup test of `strategy`
schemaTest(range) == semverValid(range) # Null \/ range \in acceptedStrategies

\* let deferred = configuration.get(`preferDeferredVersions`), then the two flags
Deferred(preferDeferredVersions, deferredFlag, immediateFlag) ==
  IF immediateFlag THEN FALSE
  ELSE IF deferredFlag THEN TRUE
  ELSE preferDeferredVersions

\* Faulty checks: the missing version is not refused; `decline` is not exempted.
bumpErrorNullAllowed(currentVersion, strat) ==
  IF semverValid(strat) # Null \/ strat = DECLINE THEN "none"
  ELSE IF currentVersion = Null THEN "none"
  ELSE IF semverValid(currentVersion) = Null THEN "InvalidCurrentVersion"
  ELSE "none"
bumpErrorDeclineChecked(currentVersion, strat) ==
  IF semverValid(strat) # Null THEN "none"
  ELSE IF currentVersion = Null THEN "NoVersionToBump"
  ELSE IF semverValid(currentVersion) = Null THEN "InvalidCurrentVersion"
  ELSE "none"

\* The UsageError thrown while the release strategy is decided, or "none".
bumpError(currentVersion, strat) ==
  IF semverValid(strat) # Null \/ strat = DECLINE THEN "none"
  ELSE IF currentVersion = Null THEN "NoVersionToBump"
  ELSE IF semverValid(currentVersion) = Null THEN "InvalidCurrentVersion"
  ELSE "none"

\* Faulty decision: the explicit version is always stored as given.
decideReleaseStrategyLiteral(currentVersion, strat) == strat

\* The value of `releaseStrategy` once decided.
decideReleaseStrategy(currentVersion, strat) ==
  IF semverValid(strat) # Null
  THEN IF currentVersion # Null
       THEN IF suggestStrategy(currentVersion, strat) # Null
            THEN suggestStrategy(currentVersion, strat)
            ELSE strat
       ELSE strat
  ELSE strat

\* Faulty guard: the arguments of semver.lt swapped.
isLowerSwapped(thisVersion, storedVersion) == semverLt(storedVersion, thisVersion)

\* semver.lt(thisVersion, storedVersion); semver throws on an invalid version.
isLower(thisVersion, storedVersion) == semverLt(thisVersion, storedVersion)

\* The regression guard: "none", or the error it ends the invocation with.
regressionCheck(ledger, ws, currentVersion, relStrategy) ==
  IF ledger[ws] = Undefined THEN "none"
  ELSE LET thisVersion == applyStrategy(currentVersion, relStrategy)
       IN IF IsError(thisVersion) THEN thisVersion.name
          ELSE IF thisVersion.kind # "semver" THEN "TypeError"
          ELSE IF isLower(thisVersion, ledger[ws]) THEN "RegressionError"
          ELSE "none"

\* Faulty set: the entry is written into a fresh record, dropping the others.
setReleaseFresh(file, ws, relStrategy) ==
  [w \in Workspaces |-> IF w = ws THEN relStrategy ELSE Undefined]

\* versionFile.releases.set(workspace, releaseStrategy)
setRelease(file, ws, relStrategy) == [file EXCEPT ![ws] = relStrategy]

\* Faulty orders: the apply step triggered whatever `deferred`; the regression
\* guard consulted only after the record was saved.
nextStepAlwaysApply(step, isDeferred) ==
  CASE step = "decided" -> IF isDeferred THEN "open" ELSE "check"
    [] step = "check" -> "open"
    [] step = "open" -> "set"
    [] step = "set" -> "save"
    [] step = "save" -> "apply"
    [] OTHER -> "done"
nextStepLateCheck(step, isDeferred) ==
  CASE step = "decided" -> "open"
    [] step = "open" -> "set"
    [] step = "set" -> "save"
    [] step = "save" -> IF isDeferred THEN "done" ELSE "check"
    [] step = "check" -> "apply"
    [] OTHER -> "done"

\* The order of the steps of execute() after the release strategy is decided.
nextStep(step, isDeferred) ==
  CASE step = "decided" -> IF isDeferred THEN "open" ELSE "check"
    [] step = "check" -> "open"
    [] step = "open" -> "set"
    [] step = "set" -> "save"
    [] step = "save" -> IF isDeferred THEN "done" ELSE "apply"
    [] OTHER -> "done"

----------------------------------------------------------------------------
\* State machine

\* The manifests tried: pkgA in any state, pkgB released at 1.2.3-4.
Manifests == {m \in [Workspaces -> ManifestVersions] : m["pkgB"] = Version(1, 2, 3, <<4>>)}

Init ==
  /\ manifest \in Manifests
  /\ disk = [r \in Records |-> EmptyRecord]
  /\ pc = "idle"
  /\ runs = 0
  /\ workspace = NoWorkspace
  /\ strategy = Null
  /\ deferred = FALSE
  /\ record = NoRecord
  /\ releaseStrategy = Null
  /\ releases = Null
  /\ versionFile = Null
  /\ outcome = "none"
  /\ log = <<>>
  /\ before = disk
  /\ manifestBefore = manifest

\* A new invocation: the arguments and the environment it runs in.
Begin(ws, strat, isDeferred, rec) ==
  /\ pc = "idle"
  /\ runs < MaxRuns
  /\ runs' = runs + 1
  /\ workspace' = ws
  /\ strategy' = strat
  /\ deferred' = isDeferred
  /\ record' = rec
  /\ before' = disk
  /\ manifestBefore' = manifest
  /\ log' = <<>>
  /\ UNCHANGED <<manifest, disk, releases, versionFile>>

Fail(name) ==
  /\ pc' = "done"
  /\ outcome' = name

\* The schema rejects the strategy: execute() is not entered.
SchemaRejects ==
  \E ws \in Workspaces \cup {NoWorkspace}, strat \in StrategyInputs, rec \in Records,
     prefer \in BOOLEAN, d \in BOOLEAN, i \in BOOLEAN :
    /\ ~schemaTest(strat)
    /\ Begin(ws, strat, Deferred(prefer, d, i), rec)
    /\ Fail("ValidationError")
    /\ UNCHANGED releaseStrategy

\* Project.find returns no workspace for the cwd.
WorkspaceRequired ==
  \E strat \in StrategyInputs, rec \in Records,
     prefer \in BOOLEAN, d \in BOOLEAN, i \in BOOLEAN :
    /\ schemaTest(strat)
    /\ Begin(NoWorkspace, strat, Deferred(prefer, d, i), rec)
    /\ Fail("WorkspaceRequiredError")
    /\ UNCHANGED releaseStrategy

\* A relative bump of a workspace that has no version, or no valid one.
BumpRefused ==
  \E ws \in Workspaces, strat \in StrategyInputs, rec \in Records,
     prefer \in BOOLEAN, d \in BOOLEAN, i \in BOOLEAN :
    /\ schemaTest(strat)
    /\ bumpError(manifest[ws], strat) # "none"
    /\ Begin(ws, strat, Deferred(prefer, d, i), rec)
    /\ Fail(bumpError(manifest[ws], strat))
    /\ UNCHANGED releaseStrategy

\* The release strategy is decided.
Decide ==
  \E ws \in Workspaces, strat \in StrategyInputs, rec \in Records,
     prefer \in BOOLEAN, d \in BOOLEAN, i \in BOOLEAN :
    /\ schemaTest(strat)
    /\ bumpError(manifest[ws], strat) = "none"
    /\ Begin(ws, strat, Deferred(prefer, d, i), rec)
    /\ releaseStrategy' = decideReleaseStrategy(manifest[ws], strat)
    /\ pc' = nextStep("decided", Deferred(prefer, d, i))
    /\ outcome' = "none"

\* resolveVersionFiles fails: a record cannot be read, or a candidate not computed.
ResolveFails ==
  /\ pc = "check"
  /\ \E readable \in BOOLEAN :
       /\ ~readable \/ resolveFailure(disk, manifest) # "none"
       /\ Fail(IF ~readable THEN "MalformedRecordError" ELSE resolveFailure(disk, manifest))
  /\ UNCHANGED <<manifest, disk, runs, workspace, strategy, deferred, record,
                 releaseStrategy, releases, versionFile, log, before, manifestBefore>>

\* The regression guard rejects the new decision.
CheckRejects ==
  /\ pc = "check"
  /\ \E order \in DiscoveryOrders :
       LET ledger == resolveVersionFiles(order, disk, manifest)
       IN /\ resolveFailure(disk, manifest) = "none"
          /\ regressionCheck(ledger, workspace, manifest[workspace], releaseStrategy) # "none"
          /\ releases' = ledger
          /\ Fail(regressionCheck(ledger, workspace, manifest[workspace], releaseStrategy))
  /\ UNCHANGED <<manifest, disk, runs, workspace, strategy, deferred, record,
                 releaseStrategy, versionFile, log, before, manifestBefore>>

\* The regression guard lets the new decision through.
CheckPasses ==
  /\ pc = "check"
  /\ \E order \in DiscoveryOrders :
       LET ledger == resolveVersionFiles(order, disk, manifest)
       IN /\ resolveFailure(disk, manifest) = "none"
          /\ regressionCheck(ledger, workspace, manifest[workspace], releaseStrategy) = "none"
          /\ releases' = ledger
  /\ pc' = nextStep("check", deferred)
  /\ UNCHANGED <<manifest, disk, runs, workspace, strategy, deferred, record,
                 releaseStrategy, versionFile, outcome, log, before, manifestBefore>>

\* openVersionFile(project, {allowEmpty: true})
Open ==
  /\ pc = "open"
  /\ versionFile' = disk[record]
  /\ pc' = nextStep("open", deferred)
  /\ UNCHANGED <<manifest, disk, runs, workspace, strategy, deferred, record,
                 releaseStrategy, releases, outcome, log, before, manifestBefore>>

OpenFails ==
  /\ pc = "open"
  /\ Fail("MalformedRecordError")
  /\ UNCHANGED <<manifest, disk, runs, workspace, strategy, deferred, record,
                 releaseStrategy, releases, versionFile, log, before, manifestBefore>>

\* versionFile.releases.set(workspace, releaseStrategy)
Set ==
  /\ pc = "set"
  /\ versionFile' = setRelease(versionFile, workspace, releaseStrategy)
  /\ log' = Append(log, "set")
  /\ pc' = nextStep("set", deferred)
  /\ UNCHANGED <<manifest, disk, runs, workspace, strategy, deferred, record,
                 releaseStrategy, releases, outcome, before, manifestBefore>>

\* versionFile.saveAll()
Save ==
  /\ pc = "save"
  /\ disk' = saveAll(disk, record, versionFile)
  /\ log' = Append(log, "saveAll")
  /\ pc' = nextStep("save", deferred)
  /\ outcome' = IF nextStep("save", deferred) = "done" THEN "ok" ELSE outcome
  /\ UNCHANGED <<manifest, runs, workspace, strategy, deferred, record,
                 releaseStrategy, releases, versionFile, before, manifestBefore>>

SaveFails ==
  /\ pc = "save"
  /\ Fail("PersistenceError")
  /\ UNCHANGED <<manifest, disk, runs, workspace, strategy, deferred, record,
                 releaseStrategy, releases, versionFile, log, before, manifestBefore>>

\* this.cli.run([`version`, `apply`]): the nested apply command runs to its end
\* before execute() returns.  It writes the version the merged ledger resolves
\* into the manifest of every workspace the ledger names; the records stay.
Apply ==
  /\ pc = "apply"
  /\ resolveFailure(disk, manifest) = "none"
  /\ \E order \in DiscoveryOrders :
       manifest' = applyReleases(manifest, resolveVersionFiles(order, disk, manifest))
  /\ log' = Append(log, "apply")
  /\ pc' = "done"
  /\ outcome' = "ok"
  /\ UNCHANGED <<disk, runs, workspace, strategy, deferred, record,
                 releaseStrategy, releases, versionFile, before, manifestBefore>>

\* The promise of cli.run rejects: line 126 awaits it outside any try/catch, so
\* the rejection leaves execute() as an error, after releases.set and saveAll
\* completed.  The record stays saved and the manifests are untouched.  (cli.run
\* belongs to the command-line library, which is not part of the available
\* sources; this step is what line 126 does if that promise ever rejects.)
ApplyFails ==
  /\ pc = "apply"
  /\ log' = Append(log, "apply")
  /\ Fail("ApplyError")
  /\ UNCHANGED <<manifest, disk, runs, workspace, strategy, deferred, record,
                 releaseStrategy, releases, versionFile, before, manifestBefore>>

\* cli.run resolves to a non-zero exit code with the nested command having
\* changed nothing: line 126 awaits the promise and ignores the value it
\* resolves to, so execute() returns normally with the manifests untouched.
ApplyExitsNonZero ==
  /\ pc = "apply"
  /\ log' = Append(log, "apply")
  /\ pc' = "done"
  /\ outcome' = "ok"
  /\ UNCHANGED <<manifest, disk, runs, workspace, strategy, deferred, record,
                 releaseStrategy, releases, versionFile, before, manifestBefore>>

\* The invocation is over; the next one starts from the persisted state alone.
Return ==
  /\ pc = "done"
  /\ pc' = "idle"
  /\ workspace' = NoWorkspace
  /\ strategy' = Null
  /\ deferred' = FALSE
  /\ record' = NoRecord
  /\ releaseStrategy' = Null
  /\ releases' = Null
  /\ versionFile' = Null
  /\ outcome' = "none"
  /\ log' = <<>>
  /\ before' = disk
  /\ manifestBefore' = manifest
  /\ UNCHANGED <<manifest, disk, runs>>

Next ==
  \/ SchemaRejects
  \/ WorkspaceRequired
  \/ BumpRefused
  \/ Decide
  \/ ResolveFails
  \/ CheckRejects
  \/ CheckPasses
  \/ Open
  \/ OpenFails
  \/ Set
  \/ Save
  \/ SaveFails
  \/ Apply
  \/ ApplyFails
  \/ ApplyExitsNonZero
  \/ Return

Spec == Init /\ [][Next]_vars

----------------------------------------------------------------------------
\* The resolver on its own: every ledger the command can have persisted, read
\* in every discovery order.

\* The entries the command can write for a workspace whose manifest version is v.
writableEntries(v) ==
  {Undefined} \cup
  {decideReleaseStrategy(v, s) :
     s \in {x \in StrategyInputs : schemaTest(x) /\ bumpError(v, x) = "none"}}

ResolverInit ==
  /\ manifest \in Manifests
  /\ disk \in {d \in [Records -> [Workspaces -> UNION {writableEntries(v) : v \in ManifestVersions}]] :
                 \A r \in Records, w \in Workspaces : d[r][w] \in writableEntries(manifest[w])}
  /\ pc = "check"
  /\ runs = 0
  /\ workspace = NoWorkspace
  /\ strategy = Null
  /\ deferred = FALSE
  /\ record = NoRecord
  /\ releaseStrategy = Null
  /\ releases = Null
  /\ versionFile = Null
  /\ outcome = "none"
  /\ log = <<>>
  /\ before = disk
  /\ manifestBefore = manifest

Resolve ==
  /\ pc = "check"
  /\ resolveFailure(disk, manifest) = "none"
  /\ \E order \in DiscoveryOrders : releases' = resolveVersionFiles(order, disk, manifest)
  /\ pc' = "done"
  /\ outcome' = "ok"
  /\ UNCHANGED <<manifest, disk, runs, workspace, strategy, deferred, record,
                 releaseStrategy, versionFile, log, before, manifestBefore>>

ResolveRefused ==
  /\ pc = "check"
  /\ resolveFailure(disk, manifest) # "none"
  /\ Fail(resolveFailure(disk, manifest))
  /\ UNCHANGED <<manifest, disk, runs, workspace, strategy, deferred, record,
                 releaseStrategy, releases, versionFile, log, before, manifestBefore>>

ResolverNext == Resolve \/ ResolveRefused

ResolverSpec == ResolverInit /\ [][ResolverNext]_vars

----------------------------------------------------------------------------
\* Vocabulary of the properties

Events == {log[i] : i \in DOMAIN log}

\* v is a maximum of the candidates cs under semver ordering.
IsMaximum(v, cs) == v \in cs /\ \A c \in cs : ~semverLt(v, c)
maximumOf(cs) == CHOOSE v \in cs : \A c \in cs : ~semverLt(v, c)

\* The merged ledger of the records d can be computed.
Resolvable(d) == resolveFailure(d, manifest) = "none"
ResolvableBefore == resolveFailure(before, manifestBefore) = "none"

\* The records of d that name workspace w.
namingRecords(d, w) == {r \in Records : d[r][w] # Undefined}

\* The command is past the decision of its release strategy for a workspace.
Decided == workspace \in Workspaces /\ releaseStrategy # Null

\* The ledger of the records as they were when the invocation started holds a
\* version for the current workspace and the newly computed one is lower.
LowerThanPending ==
  /\ Decided
  /\ ResolvableBefore
  /\ candidates(before, manifestBefore, workspace) # {}
  /\ applyStrategy(manifestBefore[workspace], releaseStrategy).kind = "semver"
  /\ semverLt(applyStrategy(manifestBefore[workspace], releaseStrategy),
              maximumOf(candidates(before, manifestBefore, workspace)))

\* The invocation was rejected and wrote nothing.
NothingWritten == log = <<>> /\ disk = before /\ outcome # "ok"

\* C1 (as stated): whatever the deferred/immediate setting, a newly computed
\* version lower than the pending one of the merged ledger is rejected and no
\* record entry is written.
C1_RegressionRejectedInEveryMode == LowerThanPending => NothingWritten

\* C1 (amended): when the invocation is not deferred, a newly computed version
\* lower than the pending one of the merged ledger is rejected with an error and
\* no record entry is written (releases.set and saveAll are not reached).
C1_RegressionRejectedWhenImmediate ==
  (LowerThanPending /\ ~deferred) =>
     /\ NothingWritten
     /\ pc \in {"check", "done"}
     /\ (pc = "done" => outcome \in {"RegressionError", "MalformedRecordError"})

C1_Witness ==
  LowerThanPending /\ ~deferred /\ pc = "done" /\ outcome = "RegressionError"

\* C2: for every package, the merged ledger holds a maximum (semver ordering) of
\* the candidates obtained by applying each naming record's strategy to the
\* package's current version, whatever the order the records are discovered in;
\* a package no record names has no entry.
C2_MergeKeepsMaximum ==
  releases # Null =>
    \A w \in Workspaces :
      IF candidates(before, manifestBefore, w) = {}
      THEN releases[w] = Undefined
      ELSE IsMaximum(releases[w], candidates(before, manifestBefore, w))

C2_Witness ==
  /\ releases # Null
  /\ \E w \in Workspaces :
       /\ Cardinality(candidates(before, manifestBefore, w)) = 2
       /\ before["changeA"][w] = Word("patch")
       /\ before["changeB"][w] = Word("major")
       /\ releases[w] = applyStrategy(manifestBefore[w], Word("major"))

\* C3 (as stated): a package present in more than one pending record never has
\* a merged version lower than its current manifest version.
C3_MergedNeverBelowCurrent ==
  \A w \in Workspaces :
    (/\ Resolvable(disk)
     /\ Cardinality(namingRecords(disk, w)) > 1
     /\ semverValid(manifest[w]) # Null)
    => \A order \in DiscoveryOrders :
         ~semverLt(resolveVersionFiles(order, disk, manifest)[w], manifest[w])

\* The records naming w hold at least one enumerated token for it.
SomeTokenEntry(d, w) == \E r \in namingRecords(d, w) : d[r][w].kind = "word"

\* C3 (amended): a package present in more than one pending record, at least
\* one of whose entries is an enumerated token rather than an explicit version,
\* never has a merged version lower than its current manifest version.
C3_MergedNeverBelowCurrentWithToken ==
  \A w \in Workspaces :
    (/\ Resolvable(disk)
     /\ Cardinality(namingRecords(disk, w)) > 1
     /\ SomeTokenEntry(disk, w)
     /\ semverValid(manifest[w]) # Null)
    => \A order \in DiscoveryOrders :
         ~semverLt(resolveVersionFiles(order, disk, manifest)[w], manifest[w])

C3_Witness ==
  \E w \in Workspaces :
    /\ Resolvable(disk)
    /\ Cardinality(namingRecords(disk, w)) > 1
    /\ SomeTokenEntry(disk, w)
    /\ \E r \in Records : disk[r][w].kind = "semver" /\ semverLt(disk[r][w], manifest[w])
    /\ semverLt(manifest[w],
                resolveVersionFiles(CHOOSE o \in DiscoveryOrders : TRUE, disk, manifest)[w])

\* The enumerated tokens, written without reference to the command's own set.
Tokens == Decision \ {UNDECIDED}

\* The invocation ended with the refusal of a relative bump of a versionless
\* workspace, having written nothing.
RefusedForLackOfVersion ==
  pc = "done" /\ outcome = "NoVersionToBump" /\ log = <<>> /\ disk = before

\* C4 (as stated): with no manifest version, every enumerated token, decline
\* included, is refused with the invalid-bump error and nothing is written.
C4_TokenOnNullRefused ==
  (/\ workspace \in Workspaces
   /\ manifestBefore[workspace] = Null
   /\ strategy \in Tokens)
  => NothingWritten

\* C4 (amended): with no manifest version, every enumerated token other than
\* decline is refused with the invalid-bump error and nothing is written.
C4_BumpTokenOnNullRefused ==
  (/\ workspace \in Workspaces
   /\ manifestBefore[workspace] = Null
   /\ strategy \in Tokens \ {DECLINE})
  => RefusedForLackOfVersion

C4_Witness ==
  /\ workspace \in Workspaces
  /\ manifestBefore[workspace] = Null
  /\ strategy = Word("major")
  /\ RefusedForLackOfVersion

\* C5: the apply step is triggered only when deferred is false and only after
\* releases.set and saveAll have completed (the record on disk then is the
\* in-memory one); when deferred is true or saveAll fails it is never triggered.
C5_ApplyOnlyAfterSaveWhenImmediate ==
  /\ (pc = "apply" \/ "apply" \in Events) =>
        /\ ~deferred
        /\ SubSeq(log, 1, 2) = <<"set", "saveAll">>
        /\ disk[record] = versionFile
        /\ versionFile[workspace] = releaseStrategy
  /\ (deferred \/ outcome = "PersistenceError") =>
        pc # "apply" /\ "apply" \notin Events

C5_Witness ==
  pc = "done" /\ outcome = "ok" /\ ~deferred /\ log = <<"set", "saveAll", "apply">>

\* The tokens that, applied to the current version, yield exactly the string to.
yieldingTokens(current, to) == {t \in SuggestTokens : applyStrategy(current, t) = to}

\* What C6 says is stored for an explicit version.
expectedStored(current, strat) ==
  IF current # Null /\ Cardinality(yieldingTokens(current, strat)) = 1
  THEN CHOOSE t \in yieldingTokens(current, strat) : TRUE
  ELSE strat

\* The errors the command's own checks raise (lines 27-36, 66-70, 96-119).
Refusals ==
  {"ValidationError", "WorkspaceRequiredError", "NoVersionToBump", "InvalidCurrentVersion",
   "RegressionError"}

\* The stored strategy of an explicit version is the one C6 names, at every
\* step of the invocation that holds one.
StoredAsExpected ==
  /\ releaseStrategy = expectedStored(manifestBefore[workspace], strategy)
  /\ ("set" \in Events => versionFile[workspace] = expectedStored(manifestBefore[workspace], strategy))
  /\ ("saveAll" \in Events =>
        disk[record][workspace] = expectedStored(manifestBefore[workspace], strategy))

\* C6 (as stated): for a valid semver strategy the stored strategy is the single
\* token that yields that exact string from a non-null current version,
\* otherwise the literal string verbatim; with a null current version the
\* command succeeds (none of its checks refuses the request).
C6_ExplicitVersionSucceedsOnNull ==
  (workspace \in Workspaces /\ semverValid(strategy) # Null) =>
     /\ StoredAsExpected
     /\ (manifestBefore[workspace] = Null => outcome \notin Refusals)

\* C6 (amended): for a valid semver strategy the decided (and then stored)
\* strategy is the single token that yields that exact string from a non-null
\* current version, otherwise the literal string verbatim; the request is never
\* refused for its strategy or for the current version, whatever that is, and
\* a deferred one is refused by no check at all; an immediate one is rejected
\* by the regression guard exactly as any other, when the merged ledger holds
\* a higher version for the package.
C6_ExplicitVersionStored ==
  (workspace \in Workspaces /\ semverValid(strategy) # Null) =>
     /\ StoredAsExpected
     /\ outcome \notin {"ValidationError", "WorkspaceRequiredError", "NoVersionToBump",
                        "InvalidCurrentVersion"}
     /\ (outcome = "RegressionError" => ~deferred /\ LowerThanPending)
     /\ (deferred => outcome \in {"none", "ok", "MalformedRecordError", "PersistenceError"})

C6_Witness ==
  /\ workspace \in Workspaces
  /\ outcome = "ok"
  /\ strategy = Version(2, 0, 0, <<>>)
  /\ manifestBefore[workspace] = Version(1, 0, 0, <<>>)
  /\ disk[record][workspace] = Word("major")

\* The version resolved for w by the merged ledger of the records d.
resolvedVersion(d, w) == maximumOf(candidates(d, manifest, w))
resolvedBefore(w) == maximumOf(candidates(before, manifestBefore, w))

\* A decline has been carried through.
DeclineDone == workspace \in Workspaces /\ strategy = DECLINE /\ outcome = "ok"

\* C7 (as stated): a decline succeeds and leaves the version the merged ledger
\* resolves for every package as it was.
C7_DeclineKeepsResolvedVersion ==
  (DeclineDone /\ ResolvableBefore /\ Resolvable(disk)) =>
     \A w \in Workspaces :
        candidates(before, manifestBefore, w) # {} =>
           /\ candidates(disk, manifest, w) # {}
           /\ resolvedVersion(disk, w) = resolvedBefore(w)

\* C7 (amended): a decline is never refused by the command's version checks, in
\* either mode and whatever the current version; carried through, it sets the
\* current workspace's entry of the current record to decline and no other
\* entry, leaves that workspace's manifest version as it was, and unless it
\* overwrote a non-decline entry of that workspace in that record it does not
\* lower the version the merged ledger resolves for any package.
C7_DeclineNeverLowersUnlessOverwriting ==
  /\ (workspace \in Workspaces /\ strategy = DECLINE) =>
        /\ outcome \notin {"ValidationError", "NoVersionToBump", "InvalidCurrentVersion"}
        /\ releaseStrategy = DECLINE
  /\ DeclineDone =>
        /\ disk = [before EXCEPT ![record][workspace] = DECLINE]
        /\ manifest[workspace] = manifestBefore[workspace]
        /\ (/\ before[record][workspace] \in {Undefined, DECLINE}
            /\ ResolvableBefore
            /\ Resolvable(disk))
           => \A w \in Workspaces :
                 candidates(before, manifestBefore, w) # {} =>
                    /\ candidates(disk, manifest, w) # {}
                    /\ ~semverLt(resolvedVersion(disk, w), resolvedBefore(w))

C7_Witness ==
  /\ DeclineDone
  /\ before[record][workspace] = Undefined
  /\ ResolvableBefore
  /\ Resolvable(disk)
  /\ candidates(before, manifestBefore, workspace) # {}
  /\ resolvedVersion(disk, workspace) = resolvedBefore(workspace)

\* C8: every strategy the command has written into a record, in memory or on
\* disk, is an enumerated token other than `undecided` or a string semver.valid
\* accepts.
C8_OnlyValidStrategiesWritten ==
  /\ \A r \in Records, w \in Workspaces :
        disk[r][w] # Undefined => disk[r][w] \in Tokens \/ semverValid(disk[r][w]) # Null
  /\ "set" \in Events =>
        versionFile[workspace] \in Tokens \/ semverValid(versionFile[workspace]) # Null

C8_Witness ==
  \E r1 \in Records, r2 \in Records, w1 \in Workspaces, w2 \in Workspaces :
     disk[r1][w1] \in Tokens /\ disk[r2][w2].kind = "semver" /\ disk[r2][w2].v

\* C9: a successful invocation leaves the persisted ledger as it was but for the
\* current workspace's entry of the current record, which is the newly decided
\* strategy; until saveAll, and in particular while resolveVersionFiles is
\* consulted, no record changes.
C9_ExactlyOneEntryChanges ==
  /\ ("saveAll" \in Events) =>
        disk = [before EXCEPT ![record] = [before[record] EXCEPT ![workspace] = releaseStrategy]]
  /\ ("saveAll" \notin Events) => disk = before
  /\ ("apply" \notin Events) => manifest = manifestBefore
  /\ outcome = "ok" => "saveAll" \in Events

C9_Witness ==
  /\ outcome = "ok"
  /\ \E w \in Workspaces \ {workspace} :
        before[record][w] # Undefined /\ disk[record][w] = before[record][w]
  /\ disk[record][workspace] = releaseStrategy
  /\ before[record][workspace] = Undefined

\* The errors of the command raised before the record is touched.
EarlyErrors ==
  {"WorkspaceRequiredError", "NoVersionToBump", "InvalidCurrentVersion", "RegressionError",
   "MalformedRecordError", "InvalidBumpError", "InvalidVersionError", "TypeError"}

\* C10: every error the command raises (missing workspace, refused bump,
\* regression, failure of resolveVersionFiles or openVersionFile) is raised
\* before releases.set and saveAll: the invocation ends with every persisted
\* record and manifest as they were and the apply step not triggered.  The same
\* holds of a refused strategy and of a failing saveAll, which comes after
\* releases.set and persists nothing.
C10_ListedErrorsLeaveNoTrace ==
  /\ outcome \in EarlyErrors =>
        /\ pc = "done"
        /\ log = <<>>
        /\ disk = before
        /\ manifest = manifestBefore
  /\ outcome \in {"ValidationError", "PersistenceError"} =>
        /\ pc = "done"
        /\ disk = before
        /\ manifest = manifestBefore
        /\ "saveAll" \notin Events
        /\ "apply" \notin Events

C10_Witness ==
  /\ pc = "done"
  /\ outcome \in {"RegressionError", "InvalidCurrentVersion"}
  /\ disk = before
  /\ \E r \in Records, w \in Workspaces : disk[r][w] # Undefined

====
